---- MODULE Spec2Model ----
(***************************************************************************)
(* Model of build_turkey_rss.py: the relevance classifier, the date        *)
(* normaliser, the freshness filter, the fingerprint deduplication and the *)
(* aggregation loop of build_feed (fetch, filter, sort, truncate).         *)
(*                                                                         *)
(* Text is a sequence of characters.  A character is a one-element string; *)
(* the non-ASCII letters are written with ASCII names ("uuml" is u-umlaut, *)
(* "Uuml" its capital, "scedil", "inodot", "gbreve", "ccedil" the Turkish  *)
(* letters of the gazetteer), each standing for ONE code point.            *)
(***************************************************************************)
EXTENDS Integers, Sequences, FiniteSets, TLC

\* ------------------------------------------------------------------------
\* Settings
\* ------------------------------------------------------------------------

\* MAX_AGE_DAYS = 14
MAX_AGE_DAYS == 14

\* MAX_ITEMS = 150 in the source; scaled down so that the cap cuts a run of
\* a few entries.
MAX_ITEMS == 2

\* FEEDS: the first two of the 23 urls of the source, written short.
FEEDS == << <<"u", "r", "l", "1">>, <<"u", "r", "l", "2">> >>

NumFeeds == Len(FEEDS)

\* Entries read in one run: one more than the cap, so that the cap cuts.
MaxEntries == MAX_ITEMS + 1

\* None; a present value v of an optional field is <<v>>.  For a text field
\* None and the empty string are both falsy and both <<>>.
None == <<>>

Some(v) == <<v>>

\* ------------------------------------------------------------------------
\* Text helpers (str.lower, substring search, the regex word boundary)
\* ------------------------------------------------------------------------

UpperChars == <<"A", "B", "C", "D", "E", "F", "G", "H", "I", "J", "K", "L", "M", "N", "O", "P", "Q", "R", "S", "T", "U", "V", "W", "X", "Y", "Z", "Uuml">>

LowerChars == <<"a", "b", "c", "d", "e", "f", "g", "h", "i", "j", "k", "l", "m", "n", "o", "p", "q", "r", "s", "t", "u", "v", "w", "x", "y", "z", "uuml">>

\* str.lower() on one character.
LowerChar(c) ==
    IF \E i \in 1..Len(UpperChars) : UpperChars[i] = c
    THEN LowerChars[CHOOSE i \in 1..Len(UpperChars) : UpperChars[i] = c]
    ELSE c

\* str.lower()
Lower(s) == [i \in 1..Len(s) |-> LowerChar(s[i])]

\* Characters that are not \w (letters, digits and "_" are).
NonWordChars == {" ", ".", "/", "?", ",", ":", "-", "!"}

IsWordChar(c) == c \notin NonWordChars

\* Is character position p of s (0 and Len(s)+1 lie outside) a \w character.
WordAt(s, p) == p >= 1 /\ p <= Len(s) /\ IsWordChar(s[p])

\* The regex \b between positions p and p+1 of s.
Boundary(s, p) == WordAt(s, p) # WordAt(s, p + 1)

\* Positions i at which w occurs in s.
OccursAt(w, s, i) == i >= 1 /\ i + Len(w) - 1 <= Len(s) /\ SubSeq(s, i, i + Len(w) - 1) = w

\* Python's `w in s`.
Contains(s, w) == \E i \in 1..(Len(s) + 1) : OccursAt(w, s, i)

\* re.search of \b(w1|w2|...)\b in s, for the alternatives ws.
SearchWord(ws, s) ==
    \E w \in ws : \E i \in 1..Len(s) :
        OccursAt(w, s, i) /\ Boundary(s, i - 1) /\ Boundary(s, i + Len(w) - 1)

\* ------------------------------------------------------------------------
\* Relevance: COUNTRY_PAT, TURKISH_ADJ_PAT, GAZETTEER, DOMAIN_HINTS
\* ------------------------------------------------------------------------

\* The alternatives of COUNTRY_PAT.
COUNTRY_PAT == {
    <<"t", "uuml", "r", "k", "e", "i">>,
    <<"t", "u", "r", "k", "e", "i">>,
    <<"t", "uuml", "r", "k", "i", "y", "e">>,
    <<"t", "u", "r", "k", "e", "y">> }

\* The optional endings (?:e[rsnm]?|en|er)? of the adjective.
AdjEndings == { <<>>, <<"e">>, <<"e", "r">>, <<"e", "s">>, <<"e", "n">>, <<"e", "m">> }

AdjStems == {
    <<"t", "uuml", "r", "k", "i", "s", "c", "h">>,
    <<"t", "u", "e", "r", "k", "i", "s", "c", "h">> }

\* The alternatives of TURKISH_ADJ_PAT, the optional endings expanded.
TURKISH_ADJ_PAT ==
    { st \o en : st \in AdjStems, en \in AdjEndings } \cup {
    <<"t", "uuml", "r", "k", "e">>,
    <<"t", "u", "e", "r", "k", "e">>,
    <<"t", "uuml", "r", "k", "i", "n">>,
    <<"t", "u", "e", "r", "k", "i", "n">> }

GAZETTEER == {
    <<"i", "s", "t", "a", "n", "b", "u", "l">>,
    <<"a", "n", "k", "a", "r", "a">>,
    <<"i", "z", "m", "i", "r">>,
    <<"b", "u", "r", "s", "a">>,
    <<"a", "n", "t", "a", "l", "y", "a">>,
    <<"a", "d", "a", "n", "a">>,
    <<"k", "o", "n", "y", "a">>,
    <<"g", "a", "z", "i", "a", "n", "t", "e", "p">>,
    <<"k", "a", "y", "s", "e", "r", "i">>,
    <<"m", "e", "r", "s", "i", "n">>,
    <<"e", "s", "k", "i", "s", "e", "h", "i", "r">>,
    <<"e", "s", "k", "i", "scedil", "e", "h", "i", "r">>,
    <<"d", "i", "y", "a", "r", "b", "a", "k", "i", "r">>,
    <<"d", "i", "y", "a", "r", "b", "a", "k", "inodot", "r">>,
    <<"s", "a", "n", "l", "i", "u", "r", "f", "a">>,
    <<"scedil", "a", "n", "l", "inodot", "u", "r", "f", "a">>,
    <<"t", "r", "a", "b", "z", "o", "n">>,
    <<"v", "a", "n">>,
    <<"e", "r", "z", "u", "r", "u", "m">>,
    <<"m", "a", "l", "a", "t", "y", "a">>,
    <<"m", "a", "n", "i", "s", "a">>,
    <<"b", "a", "l", "i", "k", "e", "s", "i", "r">>,
    <<"b", "a", "l", "inodot", "k", "e", "s", "i", "r">>,
    <<"d", "e", "n", "i", "z", "l", "i">>,
    <<"t", "e", "k", "i", "r", "d", "a", "g">>,
    <<"t", "e", "k", "i", "r", "d", "a", "gbreve">>,
    <<"s", "i", "v", "a", "s">>,
    <<"h", "a", "t", "a", "y">>,
    <<"m", "a", "r", "d", "i", "n">>,
    <<"b", "a", "t", "m", "a", "n">>,
    <<"s", "i", "r", "n", "a", "k">>,
    <<"scedil", "inodot", "r", "n", "a", "k">>,
    <<"b", "o", "d", "r", "u", "m">>,
    <<"m", "a", "r", "m", "a", "r", "i", "s">>,
    <<"c", "e", "s", "m", "e">>,
    <<"ccedil", "e", "scedil", "m", "e">>,
    <<"a", "l", "a", "n", "y", "a">>,
    <<"f", "e", "t", "h", "i", "y", "e">>,
    <<"k", "a", "p", "a", "d", "o", "k", "y", "a">>,
    <<"k", "a", "p", "p", "a", "d", "o", "k", "i", "e", "n">>,
    <<"c", "a", "p", "p", "a", "d", "o", "c", "i", "a">> }

DOMAIN_HINTS == {
    <<".", "t", "r", "/">>,
    <<"/", "/", "t", "r", ".">>,
    <<".", "t", "r", "?">> }

\* text = f" {title} {summary} ".lower()
TextOf(title, summary) == Lower(<<" ">> \o title \o <<" ">> \o summary \o <<" ">>)

\* re.IGNORECASE: the pattern and the text are compared case-folded.
AdjRule(title, summary) == SearchWord(TURKISH_ADJ_PAT, Lower(TextOf(title, summary)))

CountryRule(title, summary) == SearchWord(COUNTRY_PAT, Lower(TextOf(title, summary)))

\* any(f" {k} " in f" {text} " for k in GAZETTEER)
GazetteerRule(title, summary) ==
    \E k \in GAZETTEER :
        Contains(<<" ">> \o TextOf(title, summary) \o <<" ">>, <<" ">> \o k \o <<" ">>)

\* any(h in link.lower() for h in DOMAIN_HINTS)
DomainRule(link) == \E h \in DOMAIN_HINTS : Contains(Lower(link), h)

\* looks_like_turkey with the gazetteer words sought as substrings, not as
\* space-delimited words.
looks_like_turkey_substring(title, summary, link) ==
    \/ AdjRule(title, summary)
    \/ CountryRule(title, summary)
    \/ \E k \in GAZETTEER : Contains(TextOf(title, summary), k)
    \/ DomainRule(link)

looks_like_turkey(title, summary, link) ==
    IF AdjRule(title, summary) THEN TRUE
    ELSE IF CountryRule(title, summary) THEN TRUE
    ELSE IF GazetteerRule(title, summary) THEN TRUE
    ELSE IF DomainRule(link) THEN TRUE
    ELSE FALSE

\* ------------------------------------------------------------------------
\* Dates: datetime, timedelta, parse_date_from_entry, is_recent
\* ------------------------------------------------------------------------

IsLeap(y) == (y % 4 = 0) /\ ((y % 100 # 0) \/ (y % 400 = 0))

DaysInMonth(y, m) ==
    CASE m \in {1, 3, 5, 7, 8, 10, 12} -> 31
      [] m \in {4, 6, 9, 11} -> 30
      [] OTHER -> IF IsLeap(y) THEN 29 ELSE 28

\* Days before 1 January of year y, in the proleptic Gregorian calendar.
DaysBeforeYear(y) == 365 * (y - 1) + ((y - 1) \div 4) - ((y - 1) \div 100) + ((y - 1) \div 400)

RECURSIVE DaysBeforeMonth(_, _)
DaysBeforeMonth(y, m) == IF m = 1 THEN 0 ELSE DaysBeforeMonth(y, m - 1) + DaysInMonth(y, m - 1)

\* datetime.toordinal()
Ordinal(y, m, d) == DaysBeforeYear(y) + DaysBeforeMonth(y, m) + d

\* Does datetime(y, mo, d, h, mi, s) construct (it raises ValueError otherwise).
ValidDateTime(c) ==
    /\ c[1] >= 1 /\ c[1] <= 9999
    /\ c[2] >= 1 /\ c[2] <= 12
    /\ c[3] >= 1 /\ c[3] <= DaysInMonth(c[1], c[2])
    /\ c[4] >= 0 /\ c[4] <= 23
    /\ c[5] >= 0 /\ c[5] <= 59
    /\ c[6] >= 0 /\ c[6] <= 59

\* datetime(*c, tzinfo=tz): an aware datetime, utcoffset in minutes.
DateTime(c, off) ==
    [year |-> c[1], month |-> c[2], day |-> c[3],
     hour |-> c[4], minute |-> c[5], second |-> c[6], utcoffset |-> off]

SecondsPerDay == 24 * 60 * 60

\* The instant of an aware datetime as <<day, second of the day>> in UTC
\* (the utc offset subtracted, the seconds carried into the day).  Aware
\* datetimes are compared and subtracted by their instants.
Instant(dt) ==
    LET s0 == dt.hour * 3600 + dt.minute * 60 + dt.second - dt.utcoffset * 60
    IN  <<Ordinal(dt.year, dt.month, dt.day) + (s0 \div SecondsPerDay), s0 % SecondsPerDay>>

\* a - b for two instants: a timedelta, normalised as Python does, to
\* <<days, seconds>> with 0 <= seconds < 86400.
Minus(a, b) ==
    LET s0 == a[2] - b[2]
    IN  <<a[1] - b[1] + (s0 \div SecondsPerDay), s0 % SecondsPerDay>>

\* timedelta(days=n)
timedelta(n) == <<n, 0>>

\* a <= b and a < b, for instants and for timedeltas alike.
LessEq(a, b) == a[1] < b[1] \/ (a[1] = b[1] /\ a[2] <= b[2])

Less(a, b) == a[1] < b[1] \/ (a[1] = b[1] /\ a[2] < b[2])

\* The pass without the plausibility bound on the year.
StructCandidateUnbounded(st, max_year) ==
    IF st = None THEN None
    ELSE IF ~ValidDateTime(SubSeq(st, 1, 6)) THEN None
    ELSE Some(DateTime(SubSeq(st, 1, 6), 0))

\* One pass of the loop over the structured fields: st is a struct_time
\* (a 9-tuple) or None; the result is Some(dt) when the pass returns dt.
StructCandidate(st, max_year) ==
    IF st = None THEN None
    ELSE IF ~ValidDateTime(SubSeq(st, 1, 6)) THEN None
    ELSE LET dt == DateTime(SubSeq(st, 1, 6), 0)
         IN  IF 2000 <= dt.year /\ dt.year <= max_year THEN Some(dt) ELSE None

\* dtp.parse(s) on a date text s.  The text is modelled by what the parser
\* makes of it: s.parses says whether parse returns, s.date are the parsed
\* calendar fields and s.tz the parsed utc offset in minutes, if any.
dtp_parse(s) ==
    IF ~s.parses THEN None
    ELSE Some([date |-> s.date, tzinfo |-> s.tz])

\* One pass of the loop over the text fields: txt is None (or empty) or
\* Some(text).
TextCandidate(txt, max_year) ==
    IF txt = None THEN None
    ELSE LET r == dtp_parse(txt[1])
         IN  IF r = None THEN None
             ELSE LET off == IF r[1].tzinfo = None THEN 0 ELSE r[1].tzinfo[1]
                      dt == DateTime(r[1].date, off)
                  IN  IF 2000 <= dt.year /\ dt.year <= max_year THEN Some(dt) ELSE None

parse_date_from_entry(e, now) ==
    LET max_year == now.year + 1
        c1 == StructCandidate(e.published_parsed, max_year)
        c2 == StructCandidate(e.updated_parsed, max_year)
        c3 == TextCandidate(e.published, max_year)
        c4 == TextCandidate(e.updated, max_year)
    IN  IF c1 # None THEN c1
        ELSE IF c2 # None THEN c2
        ELSE IF c3 # None THEN c3
        ELSE c4

\* is_recent with < for <=.
is_recent_strict(dt, now) ==
    IF dt = None THEN FALSE
    ELSE Less(Minus(Instant(now), Instant(dt[1])), timedelta(MAX_AGE_DAYS))

\* is_recent(dt), the clock reading now.
is_recent(dt, now) ==
    IF dt = None THEN FALSE
    ELSE LessEq(Minus(Instant(now), Instant(dt[1])), timedelta(MAX_AGE_DAYS))

\* ------------------------------------------------------------------------
\* The inputs: the clock, the feed documents and their entries
\* ------------------------------------------------------------------------

\* A struct_time as feedparser supplies it: nine fields, the first six the
\* calendar fields.
StructTime(y, mo, d, h, mi, s) == <<y, mo, d, h, mi, s, 0, 1, 0>>

\* A date text the parser reads as these fields; tz is None or Some(minutes).
DateText(y, mo, d, h, mi, s, tz) == [parses |-> TRUE, date |-> <<y, mo, d, h, mi, s>>, tz |-> tz]

\* A date text the parser raises on.
BadDateText == [parses |-> FALSE, date |-> <<>>, tz |-> None]

\* The clock of the run: 2025-01-10T12:00:00Z, so that the window of
\* MAX_AGE_DAYS days starts in the year before.
Clocks == { DateTime(<<2025, 1, 10, 12, 0, 0>>, 0) }

NoDates == [published_parsed |-> None, updated_parsed |-> None, published |-> None, updated |-> None]

Entry(title, summary, subtitle, link, dates) ==
    [title |-> title, summary |-> summary, subtitle |-> subtitle, link |-> link,
     published_parsed |-> dates.published_parsed, updated_parsed |-> dates.updated_parsed,
     published |-> dates.published, updated |-> dates.updated]

\* "a" / "Van" / "b", dated 2025-01-03T00:00:00Z: a gazetteer word, fresh.
EVanFresh ==
    Entry(<<"a">>, <<"V", "a", "n">>, <<>>, <<"b">>,
          [NoDates EXCEPT !.published_parsed = StructTime(2025, 1, 3, 0, 0, 0)])

\* The same title and link, "Van," with a comma: no rule fires.
EVanComma ==
    Entry(<<"a">>, <<"V", "a", "n", ",">>, <<>>, <<"b">>,
          [NoDates EXCEPT !.published_parsed = StructTime(2025, 1, 2, 0, 0, 0)])

\* The same title and link, one second older than the window; the update
\* time would be fresh but comes second.
EVanStale ==
    Entry(<<"a">>, <<"V", "a", "n">>, <<>>, <<"b">>,
          [NoDates EXCEPT !.published_parsed = StructTime(2024, 12, 27, 11, 59, 59),
                          !.updated_parsed = StructTime(2025, 1, 2, 0, 0, 0)])

\* The same title and link, another summary (the adjective rule fires), a
\* structured time that datetime() rejects (year 20024) and a naive date
\* text, 2025-01-01T00:00:00.
ETuerke ==
    Entry(<<"a">>, <<"T", "uuml", "r", "k", "e">>, <<>>, <<"b">>,
          [NoDates EXCEPT !.published_parsed = StructTime(20024, 1, 1, 0, 0, 0),
                          !.published = Some(DateText(2025, 1, 1, 0, 0, 0, None))])

\* No title, no summary, the subtitle "TURKEY" (the country rule fires),
\* link "c"; published in 1999, updated exactly MAX_AGE_DAYS days ago.
ECountry ==
    Entry(<<>>, <<>>, <<"T", "U", "R", "K", "E", "Y">>, <<"c">>,
          [NoDates EXCEPT !.published_parsed = StructTime(1999, 12, 31, 23, 59, 59),
                          !.updated_parsed = StructTime(2024, 12, 27, 12, 0, 0)])

\* Title "c" and no link: title + link reads as ECountry's does.  The date
\* text carries the offset +01:00 and is the instant 2025-01-03T00:00:00Z.
ETitleOnly ==
    Entry(<<"c">>, <<"v", "a", "n">>, <<>>, <<>>,
          [NoDates EXCEPT !.published = Some(DateText(2025, 1, 3, 1, 0, 0, Some(60)))])

\* Only the link hints at the country; an unreadable publish text, an update
\* text one hour after the clock.
EDomain ==
    Entry(<<"b">>, <<>>, <<>>, <<"/", "/", "t", "r", ".", "a">>,
          [NoDates EXCEPT !.published = Some(BadDateText),
                          !.updated = Some(DateText(2025, 1, 10, 13, 0, 0, None))])

\* The same title and link with no usable date: a structured time two years
\* after the clock's year and an unreadable text.
ENoDate ==
    Entry(<<"b">>, <<>>, <<>>, <<"/", "/", "t", "r", ".", "a">>,
          [NoDates EXCEPT !.updated_parsed = StructTime(2027, 1, 1, 0, 0, 0),
                          !.updated = Some(BadDateText)])

\* Neither title nor summary, a link with a domain hint.
EEmpty ==
    Entry(<<>>, <<>>, <<>>, <<"a", ".", "t", "r", "/">>,
          [NoDates EXCEPT !.published_parsed = StructTime(2025, 1, 2, 0, 0, 0)])

Entries == { EVanFresh, EVanComma, EVanStale, ETuerke, ECountry, ETitleOnly, EDomain, ENoDate, EEmpty }

\* The feed-level titles a document may carry.
FeedTitles == { None, Some(<<"T">>) }

\* ------------------------------------------------------------------------
\* build_feed
\* ------------------------------------------------------------------------

VARIABLES
    now,     \* the clock of the run
    docs,    \* the documents the gateway served, per source, as read so far
    run,     \* 1: the first call of build_feed, 2: a second call
    prev,    \* the items the first call ended with
    pc,      \* position in build_feed
    fi,      \* index into FEEDS of the url being handled
    ei,      \* number of entries of the current document already handled
    source,  \* the source label of the current document
    seen,    \* the fingerprints accepted so far
    items,   \* the working collection, then the result
    pub      \* the last value of pub (line 152)

vars == <<now, docs, run, prev, pc, fi, ei, source, seen, items, pub>>

\* A fingerprint that also digests the source label.
FingerprintPerSource(title, link) == title \o link \o source

\* hashlib.sha256((title + link).encode("utf-8")).hexdigest(): the digest is
\* taken to be collision-free, so it is identified with the text it digests.
Fingerprint(title, link) == title \o link

\* title = e.get("title") or ""
TitleOf(e) == e.title

\* summary = e.get("summary") or e.get("subtitle", "") or ""
SummaryOf(e) == IF e.summary # <<>> THEN e.summary ELSE e.subtitle

\* link = e.get("link") or ""
LinkOf(e) == e.link

\* The dictionary appended to items.
Item(e, src, p) ==
    [title |-> TitleOf(e), link |-> LinkOf(e), summary |-> SummaryOf(e),
     source |-> src, published |-> p]

\* A run that starts on the fingerprints of the run before.
StartRunKeepSeen == seen' = seen /\ items' = <<>>

\* seen = set(); items = []
StartRun == seen' = {} /\ items' = <<>>

Init ==
    /\ now \in Clocks
    /\ docs = <<>>
    /\ run = 1
    /\ prev = <<>>
    /\ pc = "fetch"
    /\ fi = 1
    /\ ei = 0
    /\ source = <<>>
    /\ seen = {}
    /\ items = <<>>
    /\ pub = None

RECURSIVE CountEntries(_)
CountEntries(ds) == IF ds = <<>> THEN 0 ELSE Len(ds[1].entries) + CountEntries(Tail(ds))

\* The next url of FEEDS, or the end of the loop.
NextFeed ==
    /\ fi' = fi + 1
    /\ ei' = 0
    /\ pc' = IF fi = NumFeeds THEN "sort" ELSE "fetch"

\* A failed fetch that leaves the loop over FEEDS (break for continue).
FetchFailBreak ==
    /\ pc = "fetch"
    /\ IF run = 1
       THEN docs' = Append(docs, [failed |-> TRUE, title |-> None, entries |-> <<>>])
       ELSE docs[fi].failed /\ docs' = docs
    /\ fi' = fi + 1
    /\ ei' = 0
    /\ pc' = "sort"
    /\ UNCHANGED <<now, run, prev, source, seen, items, pub>>

\* feedparser.parse raises: log and continue.
FetchFail ==
    /\ pc = "fetch"
    /\ IF run = 1
       THEN docs' = Append(docs, [failed |-> TRUE, title |-> None, entries |-> <<>>])
       ELSE docs[fi].failed /\ docs' = docs
    /\ NextFeed
    /\ UNCHANGED <<now, run, prev, source, seen, items, pub>>

\* feedparser.parse returns a document with the feed-level title ft (or
\* none): source = feed.feed.get("title", url).
FetchOk(ft) ==
    /\ pc = "fetch"
    /\ IF run = 1
       THEN docs' = Append(docs, [failed |-> FALSE, title |-> ft, entries |-> <<>>])
       ELSE ~docs[fi].failed /\ docs[fi].title = ft /\ docs' = docs
    /\ source' = IF ft = None THEN FEEDS[fi] ELSE ft[1]
    /\ pc' = "entries"
    /\ ei' = 0
    /\ UNCHANGED <<now, run, prev, fi, seen, items, pub>>

\* looks_like_turkey(title, summary, link) for each entry of the inputs,
\* evaluated once.
Relevant == [e \in Entries |-> looks_like_turkey(TitleOf(e), SummaryOf(e), LinkOf(e))]

\* The body of the loop with seen.add(h) ahead of the freshness check.
HandleEntryMarkFirst(e) ==
    /\ pc = "entries"
    /\ IF run = 1
       THEN /\ CountEntries(docs) < MaxEntries
            /\ docs' = [docs EXCEPT ![fi].entries = Append(@, e)]
       ELSE /\ ei < Len(docs[fi].entries)
            /\ e = docs[fi].entries[ei + 1]
            /\ docs' = docs
    /\ ei' = ei + 1
    /\ IF TitleOf(e) = <<>> /\ SummaryOf(e) = <<>>
       THEN UNCHANGED <<seen, items, pub>>
       ELSE IF ~Relevant[e]
       THEN UNCHANGED <<seen, items, pub>>
       ELSE LET p == parse_date_from_entry(e, now)
                h == Fingerprint(TitleOf(e), LinkOf(e))
            IN  /\ pub' = p
                /\ IF h \in seen
                   THEN UNCHANGED <<seen, items>>
                   ELSE /\ seen' = seen \cup {h}
                        /\ items' = IF is_recent(p, now)
                                    THEN Append(items, Item(e, source, p))
                                    ELSE items
    /\ UNCHANGED <<now, run, prev, pc, fi, source>>

\* The body of the loop over the entries, for the entry e.
HandleEntry(e) ==
    /\ pc = "entries"
    /\ IF run = 1
       THEN /\ CountEntries(docs) < MaxEntries
            /\ docs' = [docs EXCEPT ![fi].entries = Append(@, e)]
       ELSE /\ ei < Len(docs[fi].entries)
            /\ e = docs[fi].entries[ei + 1]
            /\ docs' = docs
    /\ ei' = ei + 1
    /\ IF TitleOf(e) = <<>> /\ SummaryOf(e) = <<>>
       THEN UNCHANGED <<seen, items, pub>>
       ELSE IF ~Relevant[e]
       THEN UNCHANGED <<seen, items, pub>>
       ELSE LET p == parse_date_from_entry(e, now)
                h == Fingerprint(TitleOf(e), LinkOf(e))
            IN  /\ pub' = p
                /\ IF ~is_recent(p, now)
                   THEN UNCHANGED <<seen, items>>
                   ELSE IF h \in seen
                   THEN UNCHANGED <<seen, items>>
                   ELSE /\ seen' = seen \cup {h}
                        /\ items' = Append(items, Item(e, source, p))
    /\ UNCHANGED <<now, run, prev, pc, fi, source>>

\* The document has no further entry.
EndOfEntries ==
    /\ pc = "entries"
    /\ run = 2 => ei = Len(docs[fi].entries)
    /\ NextFeed
    /\ UNCHANGED <<now, docs, run, prev, source, seen, items, pub>>

\* datetime.min.replace(tzinfo=timezone.utc)
DatetimeMin == DateTime(<<1, 1, 1, 0, 0, 0>>, 0)

\* key=lambda x: x["published"] or datetime.min.replace(tzinfo=timezone.utc)
SortKey(x) == IF x.published = None THEN Instant(DatetimeMin) ELSE Instant(x.published[1])

\* An insertion that puts x ahead of the elements of equal key.
InsertDescUnstable(s, x) ==
    LET n == Cardinality({i \in 1..Len(s) : Less(SortKey(x), SortKey(s[i]))})
    IN  SubSeq(s, 1, n) \o <<x>> \o SubSeq(s, n + 1, Len(s))

\* s is sorted, newest first; x comes after every element of s in the list
\* being sorted, so it goes behind the elements whose key is not older.
InsertDesc(s, x) ==
    LET n == Cardinality({i \in 1..Len(s) : LessEq(SortKey(x), SortKey(s[i]))})
    IN  SubSeq(s, 1, n) \o <<x>> \o SubSeq(s, n + 1, Len(s))

\* list.sort(key=..., reverse=True): stable, newest first.
RECURSIVE SortDesc(_)
SortDesc(s) ==
    IF s = <<>> THEN <<>>
    ELSE InsertDesc(SortDesc(SubSeq(s, 1, Len(s) - 1)), s[Len(s)])

\* items[-n:]
SliceTail(s, n) == SubSeq(s, IF Len(s) < n THEN 1 ELSE Len(s) - n + 1, Len(s))

\* items[:n]
Slice(s, n) == SubSeq(s, 1, IF Len(s) < n THEN Len(s) ELSE n)

\* items.sort(...)
Sort ==
    /\ pc = "sort"
    /\ items' = SortDesc(items)
    /\ pc' = "truncate"
    /\ UNCHANGED <<now, docs, run, prev, fi, ei, source, seen, pub>>

\* items = items[:MAX_ITEMS]
Truncate ==
    /\ pc = "truncate"
    /\ items' = Slice(items, MAX_ITEMS)
    /\ pc' = "done"
    /\ UNCHANGED <<now, docs, run, prev, fi, ei, source, seen, pub>>

\* build_feed is called again, on the same documents at the same clock.
Rerun ==
    /\ pc = "done"
    /\ run = 1
    /\ run' = 2
    /\ prev' = items
    /\ StartRun
    /\ pc' = "fetch"
    /\ fi' = 1
    /\ ei' = 0
    /\ source' = <<>>
    /\ pub' = None
    /\ UNCHANGED <<now, docs>>

Next ==
    \/ FetchFail
    \/ \E ft \in FeedTitles : FetchOk(ft)
    \/ \E e \in Entries : HandleEntry(e)
    \/ EndOfEntries
    \/ Sort
    \/ Truncate

Spec == Init /\ [][Next]_vars

NextRerun == Next \/ Rerun

SpecRerun == Init /\ [][NextRerun]_vars

\* ------------------------------------------------------------------------
\* Vocabulary of the properties, stated on the documents and the clock
\* ------------------------------------------------------------------------

\* The places <<source, index>> of the entries the gateway has served.
Positions == { p \in (1..Len(docs)) \X (1..MaxEntries) : p[2] <= Len(docs[p[1]].entries) }

EntryAt(p) == docs[p[1]].entries[p[2]]

\* Encounter order: source-list order, then document order.
Before(p, q) == p[1] < q[1] \/ (p[1] = q[1] /\ p[2] < q[2])

\* The entries the current call of build_feed has gone through.
Handled(p) == p[1] < fi \/ (p[1] = fi /\ p[2] <= ei)

\* The source label of the document of source s: its title, else its url.
LabelOf(s) == IF docs[s].title = None THEN FEEDS[s] ELSE docs[s].title[1]

NonEmptyText(e) == TitleOf(e) # <<>> \/ SummaryOf(e) # <<>>

\* At least one of the four relevance rules fires on the entry.
RuleFires ==
    [e \in Entries |->
        \/ AdjRule(TitleOf(e), SummaryOf(e))
        \/ CountryRule(TitleOf(e), SummaryOf(e))
        \/ GazetteerRule(TitleOf(e), SummaryOf(e))
        \/ DomainRule(LinkOf(e))]

\* The four date candidates of an entry in priority order, each the datetime
\* it denotes when it is present and parses, whatever its year.
StructValue(st) ==
    IF st = None \/ ~ValidDateTime(SubSeq(st, 1, 6)) THEN None
    ELSE Some(DateTime(SubSeq(st, 1, 6), 0))

TextValue(txt) ==
    IF txt = None THEN None
    ELSE IF ~txt[1].parses THEN None
    ELSE Some(DateTime(txt[1].date, IF txt[1].tz = None THEN 0 ELSE txt[1].tz[1]))

Candidates(e) ==
    <<StructValue(e.published_parsed), StructValue(e.updated_parsed),
      TextValue(e.published), TextValue(e.updated)>>

YearInRange(c, clock) == c # None /\ 2000 <= c[1].year /\ c[1].year <= clock.year + 1

\* The first candidate with a year in [2000, current year + 1], else None.
FirstInRange ==
    [clock \in Clocks |-> [e \in Entries |->
        LET cs == Candidates(e)
            ok == { k \in 1..4 : YearInRange(cs[k], clock) }
        IN  IF ok = {} THEN None
            ELSE cs[CHOOSE k \in ok : \A j \in ok : k <= j]]]

\* A present timestamp not older than MAX_AGE_DAYS days at the clock.
InWindow(ts, clock) ==
    /\ ts # None
    /\ LessEq(Minus(Instant(clock), Instant(ts[1])), <<MAX_AGE_DAYS, 0>>)

\* The entry passes the non-empty, relevance and freshness checks.
Qualifies ==
    [clock \in Clocks |-> [e \in Entries |->
        NonEmptyText(e) /\ RuleFires[e] /\ InWindow(FirstInRange[clock][e], clock)]]

SameTitleLink(x, y) == x.title = y.title /\ x.link = y.link

\* The qualifying entries with the item's title and link.
Occurrences(x) ==
    { p \in Positions : Qualifies[now][EntryAt(p)] /\ SameTitleLink(EntryAt(p), x) }

IsFirst(p, ps) == p \in ps /\ \A q \in ps : ~Before(q, p)

\* Timestamps as the ranking reads them: an undated item ranks lowest.
Later(x, y) ==
    /\ x.published # None
    /\ y.published = None \/ Less(Instant(y.published[1]), Instant(x.published[1]))

SameRank(x, y) ==
    \/ x.published = None /\ y.published = None
    \/ /\ x.published # None
       /\ y.published # None
       /\ Instant(x.published[1]) = Instant(y.published[1])

\* A step of the loop body: the entry it handled is docs'[fi].entries[ei'].
EntryStep == pc = "entries" /\ ei' = ei + 1

\* ------------------------------------------------------------------------
\* Properties
\* ------------------------------------------------------------------------

\* C1: at no point of build_feed, and so not in its result, do two items of
\* the collection have the same title and the same link, whatever sources,
\* summaries or dates the entries they come from had.
C1_NoTwoItemsSameTitleLink ==
    \A i, j \in 1..Len(items) : i # j => ~SameTitleLink(items[i], items[j])

\* The run is over; two qualifying entries of different sources had the same
\* title and link but different summaries and dates, and one item stands
\* for them.
C1_Witness ==
    /\ pc = "done"
    /\ \E p, q \in Positions :
          /\ p[1] # q[1]
          /\ SameTitleLink(EntryAt(p), EntryAt(q))
          /\ SummaryOf(EntryAt(p)) # SummaryOf(EntryAt(q))
          /\ Qualifies[now][EntryAt(p)] /\ Qualifies[now][EntryAt(q)]
          /\ Cardinality({ i \in 1..Len(items) : SameTitleLink(items[i], EntryAt(p)) }) = 1

\* C2: when the loop body handles an entry with non-empty text, on which a
\* relevance rule fires and whose fingerprint is not in the seen set, the
\* entry is appended to the working collection if and only if its normalized
\* timestamp is present and now - timestamp <= MAX_AGE_DAYS days.
C2_AppendedIffInWindow ==
    [][ EntryStep =>
          LET e == docs'[fi].entries[ei']
          IN  (NonEmptyText(e) /\ RuleFires[e] /\ (TitleOf(e) \o LinkOf(e)) \notin seen)
              => ( (Len(items') = Len(items) + 1 /\ SameTitleLink(items'[Len(items')], e))
                   <=> InWindow(pub', now) ) ]_vars

\* The collection holds an item dated exactly MAX_AGE_DAYS days before the
\* clock and an item dated after the clock, while a relevant entry with a
\* timestamp older than the window, or with none, was left out.
C2_Witness ==
    /\ \E i \in 1..Len(items) :
          Minus(Instant(now), Instant(items[i].published[1])) = <<MAX_AGE_DAYS, 0>>
    /\ \E i \in 1..Len(items) : Less(Instant(now), Instant(items[i].published[1]))
    /\ \E p \in Positions :
          /\ NonEmptyText(EntryAt(p)) /\ RuleFires[EntryAt(p)]
          /\ ~InWindow(FirstInRange[now][EntryAt(p)], now)
          /\ \A i \in 1..Len(items) : ~SameTitleLink(items[i], EntryAt(p))

\* C3: once sorted, for any two items the first of which precedes the second,
\* the first has a strictly later timestamp, or the two rank the same and the
\* first was discovered before the second (source-list order, then document
\* order); an undated item ranks lowest.
C3_SortedNewestFirstStable ==
    pc \in {"truncate", "done"} =>
        \A i, j \in 1..Len(items) : i < j =>
            \/ Later(items[i], items[j])
            \/ /\ SameRank(items[i], items[j])
               /\ \E p \in Occurrences(items[i]), q \in Occurrences(items[j]) :
                     /\ IsFirst(p, Occurrences(items[i]))
                     /\ IsFirst(q, Occurrences(items[j]))
                     /\ Before(p, q)

\* Sorted, not yet cut: the first item is the newest though it was
\* discovered after the second; the second and third have the same instant.
C3_Witness ==
    /\ pc = "truncate"
    /\ Len(items) = 3
    /\ Later(items[1], items[2])
    /\ SameRank(items[2], items[3])
    /\ \E p \in Occurrences(items[2]), q \in Occurrences(items[1]) :
          IsFirst(p, Occurrences(items[2])) /\ IsFirst(q, Occurrences(items[1])) /\ Before(p, q)

\* C4: the cut leaves at most MAX_ITEMS items, exactly the first
\* min(MAX_ITEMS, n) of the n sorted survivors, and no survivor that was cut
\* off has a strictly later timestamp than one that was kept.
C4_TruncatedToNewest ==
    [][ (pc = "truncate" /\ pc' = "done") =>
          /\ Len(items') <= MAX_ITEMS
          /\ Len(items') = (IF Len(items) < MAX_ITEMS THEN Len(items) ELSE MAX_ITEMS)
          /\ \A i \in 1..Len(items') : items'[i] = items[i]
          /\ \A i \in 1..Len(items') : \A j \in (Len(items') + 1)..Len(items) :
                ~Later(items[j], items[i]) ]_vars

\* The run is over, the result is full and more entries had survived than
\* the result holds.
C4_Witness ==
    /\ pc = "done"
    /\ Len(items) = MAX_ITEMS
    /\ Cardinality(seen) > MAX_ITEMS

\* C5: a failed fetch leaves the seen set and the working collection as they
\* were and goes on to the next source, or to the sort after the last one;
\* and when the loop over the sources has ended, every qualifying entry of a
\* source behind a failed one is in the working collection by its
\* fingerprint.
C5_FailedSourceSkipped ==
    /\ [][ (pc = "fetch" /\ docs'[fi].failed) =>
             /\ seen' = seen
             /\ items' = items
             /\ fi' = fi + 1
             /\ pc' = (IF fi < NumFeeds THEN "fetch" ELSE "sort") ]_vars
    /\ [](pc = "sort" =>
             \A p \in Positions :
                 ((\E s \in 1..(p[1] - 1) : docs[s].failed) /\ Qualifies[now][EntryAt(p)])
                 => \E i \in 1..Len(items) :
                        items[i].title \o items[i].link = TitleOf(EntryAt(p)) \o LinkOf(EntryAt(p)))

\* The run is over, the first source failed, and the result holds an item of
\* the second.
C5_Witness ==
    /\ pc = "done"
    /\ docs[1].failed
    /\ \E i \in 1..Len(items) : items[i].source = LabelOf(2)

\* C6: the timestamp the loop body computes for an entry is the first of the
\* candidates structured publish time, structured update time, publish text,
\* update text that is present, parses and has a year in
\* [2000, current year + 1], and None when there is none.
C6_FirstCandidateInRange ==
    [][ EntryStep =>
          LET e == docs'[fi].entries[ei']
          IN  (NonEmptyText(e) /\ RuleFires[e]) => pub' = FirstInRange[now][e] ]_vars

\* The entry just handled has a structured publish time that was passed
\* over, and pub is a later candidate.
C6_Witness ==
    /\ pc = "entries"
    /\ ei >= 1
    /\ LET e == docs[fi].entries[ei]
       IN  /\ NonEmptyText(e) /\ RuleFires[e]
           /\ Candidates(e)[1] # None
           /\ pub # None
           /\ pub # Candidates(e)[1]
           /\ pub = Candidates(e)[2]

\* C7: every item of the collection has the title, summary and link of a
\* served entry whose title or summary is non-empty and on which at least
\* one of the four relevance rules fires.
C7_ItemsAreRelevant ==
    \A i \in 1..Len(items) :
        \E p \in Positions :
            /\ items[i].title = TitleOf(EntryAt(p))
            /\ items[i].summary = SummaryOf(EntryAt(p))
            /\ items[i].link = LinkOf(EntryAt(p))
            /\ NonEmptyText(EntryAt(p))
            /\ RuleFires[EntryAt(p)]

\* The run is over with an item in the result, and entries without text or
\* without a rule firing were served and are not in it.
C7_Witness ==
    /\ pc = "done"
    /\ Len(items) >= 1
    /\ \E p \in Positions : ~NonEmptyText(EntryAt(p)) /\ DomainRule(LinkOf(EntryAt(p)))
    /\ \E p \in Positions : NonEmptyText(EntryAt(p)) /\ ~RuleFires[EntryAt(p)]

C9_FirstOccurrenceWins ==
    /\ \A i \in 1..Len(items) :
          \E p \in Occurrences(items[i]) :
              /\ IsFirst(p, Occurrences(items[i]))
              /\ items[i].source = LabelOf(p[1])
              /\ items[i].summary = SummaryOf(EntryAt(p))
              /\ items[i].published = FirstInRange[now][EntryAt(p)]
    /\ pc # "done" =>
          /\ seen = { items[i].title \o items[i].link : i \in 1..Len(items) }
          /\ \A p \in Positions :
                (Handled(p) /\ Qualifies[now][EntryAt(p)])
                => \E i \in 1..Len(items) :
                       items[i].title \o items[i].link = TitleOf(EntryAt(p)) \o LinkOf(EntryAt(p))

\* An occurrence that did not qualify came first, two qualifying occurrences
\* of the same title and link with different summaries followed, and the
\* item is the record of the first of these two.
C9_Witness ==
    \E p, q, r \in Positions :
        /\ Before(p, q) /\ Before(q, r) /\ Handled(r)
        /\ SameTitleLink(EntryAt(p), EntryAt(q)) /\ SameTitleLink(EntryAt(q), EntryAt(r))
        /\ NonEmptyText(EntryAt(p)) /\ ~Qualifies[now][EntryAt(p)]
        /\ Qualifies[now][EntryAt(q)] /\ Qualifies[now][EntryAt(r)]
        /\ SummaryOf(EntryAt(q)) # SummaryOf(EntryAt(r))
        /\ \E i \in 1..Len(items) :
              /\ SameTitleLink(items[i], EntryAt(q))
              /\ items[i].summary = SummaryOf(EntryAt(q))

====
